---- MODULE Spec2Model ----
(***************************************************************************)
(* Configuration service of practica3/api: environments and their          *)
(* variables, stored in two relational tables and served over HTTP.        *)
(*                                                                         *)
(* The store is the two tables plus the two id sequences.  Every request   *)
(* is one action: the router's path match, the findEnvironment and         *)
(* findVariable middlewares, the handler, and the response it sends.       *)
(* Strings whose characters matter (environment names and the env_name     *)
(* path segment) are sequences of one-character strings; the other strings *)
(* (variable names, values, descriptions) are only ever compared whole.    *)
(* The created_at / updated_at columns are left out: no handler reads them.*)
(*                                                                         *)
(* A handler runs after its middlewares, and other requests can be served  *)
(* between the two.  inflight holds the requests to create or PATCH a      *)
(* variable whose middlewares have run and whose handler has not: each     *)
(* carries the req.environment and req.variable the middlewares loaded.    *)
(***************************************************************************)
EXTENDS Integers, Sequences, FiniteSets, TLC

VARIABLES environments, variables, nextEnvId, nextVarId, response, inflight

vars == <<environments, variables, nextEnvId, nextVarId, response, inflight>>
store == <<environments, variables, nextEnvId, nextVarId>>

(***************************************************************************)
(* Bounds of the model.                                                    *)
(***************************************************************************)
MaxEnvId == 2
MaxVarId == 2
MaxInflight == 2

(***************************************************************************)
(* Characters and strings.                                                 *)
(***************************************************************************)
LowerChars == <<"p", "q", "j", "s", "o", "n">>
UpperChars == <<"P", "Q", "J", "S", "O", "N">>

ToUpperChar(c) ==
    IF \E i \in 1..Len(LowerChars) : LowerChars[i] = c
    THEN UpperChars[CHOOSE i \in 1..Len(LowerChars) : LowerChars[i] = c]
    ELSE c

ToLowerChar(c) ==
    IF \E i \in 1..Len(UpperChars) : UpperChars[i] = c
    THEN LowerChars[CHOOSE i \in 1..Len(UpperChars) : UpperChars[i] = c]
    ELSE c

ToUpperCase(s) == [i \in 1..Len(s) |-> ToUpperChar(s[i])]
ToLowerCase(s) == [i \in 1..Len(s) |-> ToLowerChar(s[i])]

EndsWith(s, suffix) ==
    /\ Len(s) >= Len(suffix)
    /\ SubSeq(s, Len(s) - Len(suffix) + 1, Len(s)) = suffix

DotJson == <<".", "j", "s", "o", "n">>

(***************************************************************************)
(* Inputs of the requests.                                                 *)
(***************************************************************************)
NULL == "NULL"

Has(body, field) == field \in DOMAIN body
EmptyBody == [f \in {} |-> NULL]
Opt(field, vals) == {EmptyBody} \cup {field :> v : v \in vals}

Str_p == <<"p">>
Str_P == <<"P">>
Str_q == <<"q">>
Str_p_json == <<"p", ".", "j", "s", "o", "n">>
Str_P_JSON == <<"P", ".", "J", "S", "O", "N">>
Str_q_json == <<"q", ".", "j", "s", "o", "n">>
Str_p_json_json == Str_p_json \o DotJson

NoParam == <<>>
NoQuery == [page |-> NoParam, limit |-> NoParam]

(***************************************************************************)
(* Requests about environment names: names that differ in case only, a     *)
(* name that ends in '.json', one variable.                                *)
(***************************************************************************)
EnvironmentInputs ==
    [envBodies |->
        {n @@ d : n \in Opt("name", {Str_p, Str_P, Str_p_json}),
                  d \in Opt("description", {"d"})},
     updateBodies |->
        {n @@ d : n \in Opt("name", {Str_p_json}), d \in Opt("description", {"d"})},
     segments |-> {Str_p, Str_P, Str_p_json, Str_P_JSON},
     jsonSegments |-> {Str_p_json, Str_P_JSON, Str_p_json_json},
     varNames |-> {"A"},
     postBodies |-> {("name" :> "A") @@ ("value" :> "1")},
     putBodies |-> {"value" :> "2"},
     patchBodies |-> {"value" :> "1"},
     queries |-> {NoQuery}]

(***************************************************************************)
(* Requests about variables: two environments, two variable names, POST   *)
(* bodies with or without name and value.                                  *)
(***************************************************************************)
VariableInputs ==
    [envBodies |-> {"name" :> Str_p, "name" :> Str_q},
     updateBodies |-> {EmptyBody},
     segments |-> {Str_p, Str_q},
     jsonSegments |-> {Str_p_json, Str_q_json},
     varNames |-> {"A", "B"},
     postBodies |-> {("name" :> "A") @@ ("value" :> "1"),
                     ("name" :> "B") @@ ("value" :> "2"),
                     "name" :> "A", "value" :> "1"},
     putBodies |-> {"value" :> "2"},
     patchBodies |-> {"value" :> "1"},
     queries |-> {NoQuery}]

(***************************************************************************)
(* Requests about the ownership of variables: PATCH bodies that carry      *)
(* environment_id, with the id of an environment or null.                  *)
(***************************************************************************)
OwnershipInputs ==
    [envBodies |-> {"name" :> Str_p, "name" :> Str_q},
     updateBodies |-> {"description" :> "d"},
     segments |-> {Str_p, Str_q},
     jsonSegments |-> {Str_p_json},
     varNames |-> {"A", "B"},
     postBodies |-> {("name" :> n) @@ ("value" :> "1") : n \in {"A", "B"}},
     putBodies |-> {"name" :> "A", "name" :> "B"},
     patchBodies |-> {"environment_id" :> e : e \in 0..MaxEnvId},
     queries |-> {NoQuery}]

(***************************************************************************)
(* Requests about the fields of a variable: one environment, bodies over   *)
(* every subset of name, value, description and is_sensitive.              *)
(***************************************************************************)
FieldBodies ==
    {n @@ v @@ d @@ s : n \in Opt("name", {"B"}), v \in Opt("value", {"2"}),
                        d \in Opt("description", {"d"}),
                        s \in Opt("is_sensitive", {TRUE})}

FieldInputs ==
    [envBodies |-> {"name" :> Str_p},
     updateBodies |-> {EmptyBody},
     segments |-> {Str_p},
     jsonSegments |-> {Str_p_json},
     varNames |-> {"A"},
     postBodies |-> {("name" :> "A") @@ ("value" :> "1")},
     putBodies |-> FieldBodies,
     patchBodies |-> FieldBodies,
     queries |-> {NoQuery}]

(***************************************************************************)
(* Requests about the list of environments: page and limit absent, not a   *)
(* number, zero, positive and negative.                                    *)
(***************************************************************************)
ListInputs ==
    [envBodies |-> {"name" :> Str_p, "name" :> Str_q, "name" :> Str_p_json},
     updateBodies |-> {EmptyBody},
     segments |-> {Str_p, Str_q},
     jsonSegments |-> {Str_p_json},
     varNames |-> {"A"},
     postBodies |-> {("name" :> "A") @@ ("value" :> "1")},
     putBodies |-> {"value" :> "2"},
     patchBodies |-> {"value" :> "1"},
     queries |-> [page : {NoParam, <<"a">>, <<"0">>, <<"1">>, <<"2">>, <<"-", "1">>},
                  limit : {NoParam, <<"a">>, <<"0">>, <<"1">>, <<"2">>, <<"-", "1">>}]]

(***************************************************************************)
(* Requests that overlap: one environment name, created, deleted and       *)
(* created again, one variable name, PATCH bodies with environment_id.     *)
(***************************************************************************)
ConcurrentInputs ==
    [envBodies |-> {"name" :> Str_p},
     updateBodies |-> {EmptyBody},
     segments |-> {Str_p},
     jsonSegments |-> {Str_p_json},
     varNames |-> {"A"},
     postBodies |-> {("name" :> "A") @@ ("value" :> "1")},
     putBodies |-> {"value" :> "2"},
     patchBodies |-> {"environment_id" :> e : e \in 0..MaxEnvId},
     queries |-> {NoQuery}]

(***************************************************************************)
(* Responses.  Every response has the same fields; the ones a response     *)
(* does not carry hold the empty value of their type.                      *)
(***************************************************************************)
NoEnvironment == [id |-> 0, name |-> <<>>, description |-> NULL]
NoVariable ==
    [id |-> 0, name |-> "", value |-> "", description |-> NULL,
     is_sensitive |-> FALSE, environment_id |-> 0]
NoConfig == [n \in {} |-> ""]

Response(op, status) ==
    [op |-> op, status |-> status, error |-> "", message |-> "", details |-> "",
     environment |-> NoEnvironment, variable |-> NoVariable, config |-> NoConfig,
     total_items |-> 0, total_pages |-> 0, current_page |-> 0, environments |-> <<>>]

ErrorResponse(op, status, error, message) ==
    [Response(op, status) EXCEPT !.error = error, !.message = message]

(***************************************************************************)
(* Results of the calls on the models: a row, or the error thrown.         *)
(***************************************************************************)
Ok(row) == [ok |-> TRUE, row |-> row, error |-> "", message |-> ""]
Thrown(row, name, message) == [ok |-> FALSE, row |-> row, error |-> name, message |-> message]


(***************************************************************************)
(* The router.  '/environments/:env_name.json' is registered before        *)
(* '/environments/:env_name', matches without regard to case, and binds    *)
(* env_name to the non-empty text before the final '.json'.                *)
(***************************************************************************)
MatchesJsonRoute(segment) ==
    /\ Len(segment) > Len(DotJson)
    /\ EndsWith(ToLowerCase(segment), DotJson)

JsonRouteParam(segment) == SubSeq(segment, 1, Len(segment) - Len(DotJson))

(***************************************************************************)
(* findEnvironment: strip a trailing '.json', upper-case, findOne by name. *)
(***************************************************************************)
StripJsonExtension(env_name) ==
    IF EndsWith(ToLowerCase(env_name), DotJson)
    THEN SubSeq(env_name, 1, Len(env_name) - 5)
    ELSE env_name

NormalizeEnvName_NoUpperCase(env_name) == StripJsonExtension(env_name)

NormalizeEnvName(env_name) == ToUpperCase(StripJsonExtension(env_name))

EnvironmentFindOne(name) == {e \in environments : e.name = name}

EnvironmentFound(env_name) == EnvironmentFindOne(NormalizeEnvName(env_name)) # {}

ReqEnvironment(env_name) ==
    CHOOSE e \in EnvironmentFindOne(NormalizeEnvName(env_name)) : TRUE

EnvironmentNotFound(op) ==
    ErrorResponse(op, 404, "Not Found", "Environment not found.")

(***************************************************************************)
(* findVariable: findOne by (environment_id, name), exact match.           *)
(***************************************************************************)
VariableFindOne(environment_id, name) ==
    {v \in variables : v.environment_id = environment_id /\ v.name = name}

VariableFound(environment, var_name) ==
    VariableFindOne(environment.id, var_name) # {}

ReqVariable(environment, var_name) ==
    CHOOSE v \in VariableFindOne(environment.id, var_name) : TRUE

VariableNotFound(op) ==
    ErrorResponse(op, 404, "Not Found", "Variable not found in environment.")

(***************************************************************************)
(* Error handling of the handlers.                                         *)
(***************************************************************************)
GlobalErrorHandler(op, err) ==
    [Response(op, 500) EXCEPT
        !.error = "Internal Server Error",
        !.message = "An unexpected error occurred on the server side.",
        !.details = err.message]

ValidationErrorResponse(op, err) ==
    ErrorResponse(op, 400, "Validation Error", err.message)

UniqueOrValidation == {"SequelizeUniqueConstraintError", "SequelizeValidationError"}

CatchValidation(op, err, names) ==
    IF err.error \in names
    THEN ValidationErrorResponse(op, err)
    ELSE GlobalErrorHandler(op, err)


Pick(body, fields) == [f \in (DOMAIN body) \cap fields |-> body[f]]
Field(values, field, default) == IF Has(values, field) THEN values[field] ELSE default

(***************************************************************************)
(* The Environment model: name is upper-cased by its setter and unique.    *)
(***************************************************************************)
SetName_Verbatim(value) == value

SetName(value) == ToUpperCase(value)

EnvironmentNameTaken_Never(name) == FALSE

EnvironmentNameTaken(name) == \E e \in environments : e.name = name

EnvironmentCreate(values) ==
    IF ~Has(values, "name")
    THEN Thrown(NoEnvironment, "TypeError",
                "Cannot read properties of undefined (reading 'toUpperCase')")
    ELSE LET row == [id |-> nextEnvId,
                     name |-> SetName(values["name"]),
                     description |-> Field(values, "description", NULL)]
         IN  IF EnvironmentNameTaken(row.name)
             THEN Thrown(row, "SequelizeUniqueConstraintError", "name must be unique")
             ELSE Ok(row)

EnvironmentUpdate(environment, values) ==
    [environment EXCEPT !.description = Field(values, "description", @)]

OnDeleteCascade_NoAction(environment) == variables

OnDeleteCascade(environment) ==
    {v \in variables : v.environment_id # environment.id}

(***************************************************************************)
(* The Variable model: name and value are required, (environment_id, name) *)
(* is unique, environment_id is a nullable foreign key to environments.    *)
(***************************************************************************)
NullId == 0

VariableAttributes == {"name", "value", "description", "is_sensitive", "environment_id"}

NotNullViolation(values) ==
    IF ~Has(values, "name") THEN "Variable.name cannot be null"
    ELSE IF ~Has(values, "value") THEN "Variable.value cannot be null"
    ELSE ""

UniqueIndexViolation_NameOnly(row) ==
    \E v \in variables : v.id # row.id /\ v.name = row.name

UniqueIndexViolation(row) ==
    /\ row.environment_id # NullId
    /\ \E v \in variables :
          /\ v.id # row.id
          /\ v.environment_id = row.environment_id
          /\ v.name = row.name

ForeignKeyViolation(row) ==
    /\ row.environment_id # NullId
    /\ \A e \in environments : e.id # row.environment_id

Write(row) ==
    IF UniqueIndexViolation(row)
    THEN Thrown(row, "SequelizeUniqueConstraintError", "environment_id must be unique")
    ELSE IF ForeignKeyViolation(row)
    THEN Thrown(row, "SequelizeForeignKeyConstraintError",
                "insert or update on table variables violates foreign key constraint")
    ELSE Ok(row)

VariableCreate(values) ==
    IF NotNullViolation(values) # ""
    THEN Thrown(NoVariable, "SequelizeValidationError", NotNullViolation(values))
    ELSE Write([id |-> nextVarId,
                name |-> values["name"],
                value |-> values["value"],
                description |-> Field(values, "description", NULL),
                is_sensitive |-> values["is_sensitive"],
                environment_id |-> values["environment_id"]])

VariableUpdate(variable, values) ==
    Write([id |-> variable.id,
           name |-> Field(values, "name", variable.name),
           value |-> Field(values, "value", variable.value),
           description |-> Field(values, "description", variable.description),
           is_sensitive |-> Field(values, "is_sensitive", variable.is_sensitive),
           environment_id |-> Field(values, "environment_id", variable.environment_id)])

(***************************************************************************)
(* The flat configuration of the dump route.                               *)
(***************************************************************************)
IncludedVariables_All(environment) == variables

IncludedVariables(environment) ==
    {v \in variables : v.environment_id = environment.id}

RECURSIVE Reduce(_, _)
Reduce(vs, acc) ==
    IF vs = {} THEN acc
    ELSE LET variable == CHOOSE v \in vs : TRUE
         IN  Reduce(vs \ {variable}, (variable.name :> variable.value) @@ acc)

FlatConfig(environment) == Reduce(IncludedVariables(environment), NoConfig)

(***************************************************************************)
(* The paginated list.  parseInt reads an optional sign and the digits     *)
(* that follow; x || d is d when x is NaN or 0.  The rows are ordered by   *)
(* name, code point by code point; the database refuses a negative LIMIT   *)
(* or OFFSET.                                                              *)
(***************************************************************************)
DigitChars == <<"0", "1", "2", "3", "4", "5", "6", "7", "8", "9">>

IsDigit(c) == \E i \in 1..Len(DigitChars) : DigitChars[i] = c

DigitValue(c) == (CHOOSE i \in 1..Len(DigitChars) : DigitChars[i] = c) - 1

RECURSIVE DigitsPrefix(_)
DigitsPrefix(s) ==
    IF s = <<>> \/ ~IsDigit(Head(s)) THEN <<>>
    ELSE <<Head(s)>> \o DigitsPrefix(Tail(s))

RECURSIVE DigitsValue(_)
DigitsValue(ds) ==
    IF ds = <<>> THEN 0
    ELSE 10 * DigitsValue(SubSeq(ds, 1, Len(ds) - 1)) + DigitValue(ds[Len(ds)])

NaN == [nan |-> TRUE, value |-> 0]

ParseInt(s) ==
    LET signed == s # <<>> /\ Head(s) \in {"-", "+"}
        ds == DigitsPrefix(IF signed THEN Tail(s) ELSE s)
    IN  IF ds = <<>> THEN NaN
        ELSE [nan |-> FALSE,
              value |-> IF Head(s) = "-" THEN 0 - DigitsValue(ds) ELSE DigitsValue(ds)]

OrDefault(parsed, default) ==
    IF parsed.nan \/ parsed.value = 0 THEN default ELSE parsed.value

CharOrder == <<".", "J", "N", "O", "P", "Q", "S">>

CharRank(c) == CHOOSE i \in 1..Len(CharOrder) : CharOrder[i] = c

RECURSIVE NameLess(_, _)
NameLess(a, b) ==
    IF b = <<>> THEN FALSE
    ELSE IF a = <<>> THEN TRUE
    ELSE IF Head(a) # Head(b) THEN CharRank(Head(a)) < CharRank(Head(b))
    ELSE NameLess(Tail(a), Tail(b))

RECURSIVE OrderByNameAsc(_)
OrderByNameAsc(rows) ==
    IF rows = {} THEN <<>>
    ELSE LET first == CHOOSE e \in rows :
                         \A f \in rows \ {e} : NameLess(e.name, f.name)
         IN  <<first>> \o OrderByNameAsc(rows \ {first})

Min(a, b) == IF a < b THEN a ELSE b

EnvironmentFindAndCountAll(limit, offset) ==
    IF offset < 0
    THEN Thrown(<<>>, "SequelizeDatabaseError", "OFFSET must not be negative")
    ELSE IF limit < 0
    THEN Thrown(<<>>, "SequelizeDatabaseError", "LIMIT must not be negative")
    ELSE LET ordered == OrderByNameAsc(environments)
         IN  Ok(SubSeq(ordered, offset + 1, Min(offset + limit, Len(ordered))))

MathCeil(n, d) ==
    IF d > 0 THEN (n + d - 1) \div d ELSE 0 - (n \div (0 - d))


(***************************************************************************)
(* The initial state: both tables empty, both id sequences at 1.           *)
(***************************************************************************)
Init ==
    /\ environments = {}
    /\ variables = {}
    /\ nextEnvId = 1
    /\ nextVarId = 1
    /\ response = Response("", 0)
    /\ inflight = {}

Reply(r) == response' = r /\ UNCHANGED <<store, inflight>>

(***************************************************************************)
(* GET /environments/:env_name.json                                        *)
(***************************************************************************)
GetEnvironmentJson(segment) ==
    /\ MatchesJsonRoute(segment)
    /\ LET env_name == JsonRouteParam(segment)
           op == "GetEnvironmentJson"
       IN  IF ~EnvironmentFound(env_name)
           THEN Reply(EnvironmentNotFound(op))
           ELSE Reply([Response(op, 200) EXCEPT
                          !.config = FlatConfig(ReqEnvironment(env_name))])

(***************************************************************************)
(* GET /environments/                                                      *)
(***************************************************************************)
GetEnvironments(query) ==
    LET op == "GetEnvironments"
        page == OrDefault(ParseInt(query.page), 1)
        limit == OrDefault(ParseInt(query.limit), 10)
        offset == (page - 1) * limit
        result == EnvironmentFindAndCountAll(limit, offset)
    IN  IF result.ok
        THEN Reply([Response(op, 200) EXCEPT
                       !.total_items = Cardinality(environments),
                       !.total_pages = MathCeil(Cardinality(environments), limit),
                       !.current_page = page,
                       !.environments = result.row])
        ELSE Reply(GlobalErrorHandler(op, result))

(***************************************************************************)
(* POST /environments/                                                     *)
(***************************************************************************)
PostEnvironment(body) ==
    LET op == "PostEnvironment"
        result == EnvironmentCreate(Pick(body, {"name", "description"}))
    IN  IF result.ok
        THEN /\ nextEnvId <= MaxEnvId
             /\ environments' = environments \cup {result.row}
             /\ nextEnvId' = nextEnvId + 1
             /\ response' = [Response(op, 201) EXCEPT
                                !.message = "Environment created successfully",
                                !.environment = result.row]
             /\ UNCHANGED <<variables, nextVarId, inflight>>
        ELSE Reply(CatchValidation(op, result, UniqueOrValidation))

(***************************************************************************)
(* GET /environments/:env_name                                             *)
(***************************************************************************)
GetEnvironment(segment) ==
    /\ ~MatchesJsonRoute(segment)
    /\ LET op == "GetEnvironment"
       IN  IF ~EnvironmentFound(segment)
           THEN Reply(EnvironmentNotFound(op))
           ELSE Reply([Response(op, 200) EXCEPT
                          !.message = "Details for environment",
                          !.environment = ReqEnvironment(segment)])

(***************************************************************************)
(* PUT /environments/:env_name and PATCH /environments/:env_name           *)
(***************************************************************************)
SaveEnvironment(op, message, environment, updated) ==
    /\ environments' = (environments \ {environment}) \cup {updated}
    /\ response' = [Response(op, 200) EXCEPT
                       !.message = message, !.environment = updated]
    /\ UNCHANGED <<variables, nextEnvId, nextVarId, inflight>>

PutEnvironment_WithName(segment, body) ==
    LET op == "PutEnvironment"
    IN  IF ~EnvironmentFound(segment)
        THEN Reply(EnvironmentNotFound(op))
        ELSE LET environment == ReqEnvironment(segment)
                 updated == EnvironmentUpdate(environment, Pick(body, {"description"}))
             IN  SaveEnvironment(op, "Environment fully updated (description only)",
                     environment,
                     [updated EXCEPT !.name = IF Has(body, "name")
                                              THEN SetName(body["name"]) ELSE @])

PutEnvironment(segment, body) ==
    LET op == "PutEnvironment"
    IN  IF ~EnvironmentFound(segment)
        THEN Reply(EnvironmentNotFound(op))
        ELSE LET environment == ReqEnvironment(segment)
             IN  SaveEnvironment(op, "Environment fully updated (description only)",
                     environment,
                     EnvironmentUpdate(environment, Pick(body, {"description"})))

PatchEnvironment(segment, body) ==
    LET op == "PatchEnvironment"
    IN  IF ~EnvironmentFound(segment)
        THEN Reply(EnvironmentNotFound(op))
        ELSE LET environment == ReqEnvironment(segment)
             IN  SaveEnvironment(op, "Environment partially updated",
                     environment,
                     IF Has(body, "description")
                     THEN EnvironmentUpdate(environment,
                              "description" :> body["description"])
                     ELSE environment)

(***************************************************************************)
(* DELETE /environments/:env_name                                          *)
(***************************************************************************)
DeleteEnvironment(segment) ==
    LET op == "DeleteEnvironment"
    IN  IF ~EnvironmentFound(segment)
        THEN Reply(EnvironmentNotFound(op))
        ELSE LET environment == ReqEnvironment(segment)
             IN  /\ environments' = environments \ {environment}
                 /\ variables' = OnDeleteCascade(environment)
                 /\ response' = Response(op, 204)
                 /\ UNCHANGED <<nextEnvId, nextVarId, inflight>>


(***************************************************************************)
(* POST /environments/:env_name/variables                                  *)
(***************************************************************************)
PostVariable(segment, body) ==
    LET op == "PostVariable"
    IN  IF ~EnvironmentFound(segment)
        THEN Reply(EnvironmentNotFound(op))
        ELSE LET environment == ReqEnvironment(segment)
                 result == VariableCreate(
                     Pick(body, {"name", "value", "description"})
                     @@ ("is_sensitive" :> Field(body, "is_sensitive", FALSE))
                     @@ ("environment_id" :> environment.id))
             IN  IF result.ok
                 THEN /\ nextVarId <= MaxVarId
                      /\ variables' = variables \cup {result.row}
                      /\ nextVarId' = nextVarId + 1
                      /\ response' = [Response(op, 201) EXCEPT
                                         !.message = "Variable created",
                                         !.variable = result.row]
                      /\ UNCHANGED <<environments, nextEnvId, inflight>>
                 ELSE Reply(CatchValidation(op, result, UniqueOrValidation))

(***************************************************************************)
(* GET /environments/:env_name/variables/:var_name                         *)
(***************************************************************************)
GetVariable(segment, var_name) ==
    LET op == "GetVariable"
    IN  IF ~EnvironmentFound(segment)
        THEN Reply(EnvironmentNotFound(op))
        ELSE IF ~VariableFound(ReqEnvironment(segment), var_name)
        THEN Reply(VariableNotFound(op))
        ELSE Reply([Response(op, 200) EXCEPT
                       !.message = "Details for variable",
                       !.variable = ReqVariable(ReqEnvironment(segment), var_name)])

(***************************************************************************)
(* PUT and PATCH /environments/:env_name/variables/:var_name               *)
(***************************************************************************)
SaveVariable(op, message, variable, result) ==
    IF result.ok
    THEN /\ variables' = (variables \ {variable}) \cup {result.row}
         /\ response' = [Response(op, 200) EXCEPT
                            !.message = message, !.variable = result.row]
         /\ UNCHANGED <<environments, nextEnvId, nextVarId, inflight>>
    ELSE Reply(CatchValidation(op, result, UniqueOrValidation))

PutValues_Replace(body, variable) ==
    ("name" :> Field(body, "name", variable.name))
    @@ ("value" :> Field(body, "value", variable.value))
    @@ ("description" :> Field(body, "description", NULL))
    @@ ("is_sensitive" :> Field(body, "is_sensitive", FALSE))

PutValues(body, variable) ==
    ("name" :> Field(body, "name", variable.name))
    @@ ("value" :> Field(body, "value", variable.value))
    @@ ("description" :> Field(body, "description", variable.description))
    @@ ("is_sensitive" :> Field(body, "is_sensitive", variable.is_sensitive))

PutVariable(segment, var_name, body) ==
    LET op == "PutVariable"
    IN  IF ~EnvironmentFound(segment)
        THEN Reply(EnvironmentNotFound(op))
        ELSE IF ~VariableFound(ReqEnvironment(segment), var_name)
        THEN Reply(VariableNotFound(op))
        ELSE LET variable == ReqVariable(ReqEnvironment(segment), var_name)
             IN  SaveVariable(op, "Variable fully updated", variable,
                     VariableUpdate(variable, PutValues(body, variable)))

PatchValues(body) == Pick(body, VariableAttributes)

PatchVariable(segment, var_name, body) ==
    LET op == "PatchVariable"
    IN  IF ~EnvironmentFound(segment)
        THEN Reply(EnvironmentNotFound(op))
        ELSE IF ~VariableFound(ReqEnvironment(segment), var_name)
        THEN Reply(VariableNotFound(op))
        ELSE LET variable == ReqVariable(ReqEnvironment(segment), var_name)
             IN  SaveVariable(op, "Variable partially updated", variable,
                     VariableUpdate(variable, PatchValues(body)))

(***************************************************************************)
(* DELETE /environments/:env_name/variables/:var_name                      *)
(***************************************************************************)
DeleteVariable(segment, var_name) ==
    LET op == "DeleteVariable"
    IN  IF ~EnvironmentFound(segment)
        THEN Reply(EnvironmentNotFound(op))
        ELSE IF ~VariableFound(ReqEnvironment(segment), var_name)
        THEN Reply(VariableNotFound(op))
        ELSE /\ variables' = variables \ {ReqVariable(ReqEnvironment(segment), var_name)}
             /\ response' = Response(op, 204)
             /\ UNCHANGED <<environments, nextEnvId, nextVarId, inflight>>

(***************************************************************************)
(* POST of a variable, in its two steps: findEnvironment, then the handler *)
(* with the req.environment it was given.                                  *)
(***************************************************************************)
InFlight(op, environment, variable, body) ==
    [op |-> op, environment |-> environment, variable |-> variable, body |-> body]

AwaitHandler(req) ==
    /\ Cardinality(inflight) < MaxInflight
    /\ req \notin inflight
    /\ inflight' = inflight \cup {req}
    /\ UNCHANGED <<store, response>>

PostVariableFindEnvironment(segment, body) ==
    /\ EnvironmentFound(segment)
    /\ AwaitHandler(InFlight("PostVariable", ReqEnvironment(segment), NoVariable, body))

PostVariableHandler(req) ==
    /\ req.op = "PostVariable"
    /\ inflight' = inflight \ {req}
    /\ LET op == "PostVariable"
           result == VariableCreate(
               Pick(req.body, {"name", "value", "description"})
               @@ ("is_sensitive" :> Field(req.body, "is_sensitive", FALSE))
               @@ ("environment_id" :> req.environment.id))
       IN  IF result.ok
           THEN /\ nextVarId <= MaxVarId
                /\ variables' = variables \cup {result.row}
                /\ nextVarId' = nextVarId + 1
                /\ response' = [Response(op, 201) EXCEPT
                                   !.message = "Variable created",
                                   !.variable = result.row]
                /\ UNCHANGED <<environments, nextEnvId>>
           ELSE /\ response' = CatchValidation(op, result, UniqueOrValidation)
                /\ UNCHANGED store

(***************************************************************************)
(* PATCH of a variable, in its two steps: findEnvironment and findVariable,*)
(* then the handler with the req.variable it was given.  update() sets the *)
(* values of the body on that instance and writes the fields it changed to *)
(* the row of the instance's id; a row deleted in between is not written.  *)
(***************************************************************************)
PatchVariableFindVariable(segment, var_name, body) ==
    /\ EnvironmentFound(segment)
    /\ VariableFound(ReqEnvironment(segment), var_name)
    /\ AwaitHandler(InFlight("PatchVariable", ReqEnvironment(segment),
                              ReqVariable(ReqEnvironment(segment), var_name), body))

Changed(instance, values) == {f \in DOMAIN values : values[f] # instance[f]}

PatchVariableHandler(req) ==
    /\ req.op = "PatchVariable"
    /\ inflight' = inflight \ {req}
    /\ LET op == "PatchVariable"
           values == PatchValues(req.body)
           rows == {v \in variables : v.id = req.variable.id}
           instance == [f \in DOMAIN req.variable |->
                           IF f \in DOMAIN values THEN values[f] ELSE req.variable[f]]
       IN  IF rows = {}
           THEN /\ response' = [Response(op, 200) EXCEPT
                                   !.message = "Variable partially updated",
                                   !.variable = instance]
                /\ UNCHANGED store
           ELSE LET row == CHOOSE v \in rows : TRUE
                    result == VariableUpdate(row, Pick(values, Changed(req.variable, values)))
                IN  IF result.ok
                    THEN /\ variables' = (variables \ {row}) \cup {result.row}
                         /\ response' = [Response(op, 200) EXCEPT
                                            !.message = "Variable partially updated",
                                            !.variable = instance]
                         /\ UNCHANGED <<environments, nextEnvId, nextVarId>>
                    ELSE /\ response' = CatchValidation(op, result, UniqueOrValidation)
                         /\ UNCHANGED store

(***************************************************************************)
(* The service: any request, at any time, one after the other.             *)
(***************************************************************************)
NextOver(in) ==
    \/ \E segment \in in.jsonSegments : GetEnvironmentJson(segment)
    \/ \E query \in in.queries : GetEnvironments(query)
    \/ \E body \in in.envBodies : PostEnvironment(body)
    \/ \E segment \in in.segments : GetEnvironment(segment)
    \/ \E segment \in in.segments, body \in in.updateBodies :
          PutEnvironment(segment, body)
    \/ \E segment \in in.segments, body \in in.updateBodies :
          PatchEnvironment(segment, body)
    \/ \E segment \in in.segments : DeleteEnvironment(segment)
    \/ \E segment \in in.segments, body \in in.postBodies : PostVariable(segment, body)
    \/ \E segment \in in.segments, var_name \in in.varNames :
          GetVariable(segment, var_name)
    \/ \E segment \in in.segments, var_name \in in.varNames, body \in in.putBodies :
          PutVariable(segment, var_name, body)
    \/ \E segment \in in.segments, var_name \in in.varNames, body \in in.patchBodies :
          PatchVariable(segment, var_name, body)
    \/ \E segment \in in.segments, var_name \in in.varNames :
          DeleteVariable(segment, var_name)

Next == NextOver(EnvironmentInputs)
NextVariables == NextOver(VariableInputs)
NextFields == NextOver(FieldInputs)
NextOwnership == NextOver(OwnershipInputs)
NextList == NextOver(ListInputs)

(***************************************************************************)
(* The service with requests that overlap: the steps of a POST or PATCH of *)
(* a variable, with any other request between them.                        *)
(***************************************************************************)
NextConcurrent ==
    \/ NextOver(ConcurrentInputs)
    \/ \E segment \in ConcurrentInputs.segments, body \in ConcurrentInputs.postBodies :
          PostVariableFindEnvironment(segment, body)
    \/ \E req \in inflight : PostVariableHandler(req)
    \/ \E segment \in ConcurrentInputs.segments, var_name \in ConcurrentInputs.varNames,
          body \in ConcurrentInputs.patchBodies :
          PatchVariableFindVariable(segment, var_name, body)
    \/ \E req \in inflight : PatchVariableHandler(req)

Spec == Init /\ [][Next]_vars
SpecVariables == Init /\ [][NextVariables]_vars
SpecFields == Init /\ [][NextFields]_vars
SpecOwnership == Init /\ [][NextOwnership]_vars
SpecList == Init /\ [][NextList]_vars
SpecConcurrent == Init /\ [][NextConcurrent]_vars


(***************************************************************************)
(*                       Properties of environments                        *)
(***************************************************************************)

(* C1: in every reachable state no two stored environments have names that *)
(* are equal after upper-casing.                                           *)
C1_NamesUniqueAfterUpperCasing ==
    \A e1, e2 \in environments :
        e1 # e2 => ToUpperCase(e1.name) # ToUpperCase(e2.name)

(* Two environments are stored and a third POST has just been refused.     *)
C1_Witness ==
    /\ Cardinality(environments) = 2
    /\ response.op = "PostEnvironment"
    /\ response.status = 400

(* C4: a request whose env_name segment is a case variant of the name an   *)
(* environment was created with, and which is not deleted, resolves to     *)
(* that environment.  Stated on the routes that answer with the record.    *)
C4_CaseVariantsResolve ==
    [][\A segment \in EnvironmentInputs.segments, e \in environments :
          /\ response'.op \in {"GetEnvironment", "PatchEnvironment"}
          /\ ToUpperCase(segment) = e.name
          /\ \/ GetEnvironment(segment)
             \/ \E body \in EnvironmentInputs.updateBodies :
                   PatchEnvironment(segment, body)
          => /\ response'.status = 200
             /\ response'.environment.id = e.id]_vars

(* C5: POST /environments/ with a name equal, after upper-casing, to the   *)
(* name of a stored environment is answered 400 Validation Error and       *)
(* leaves both tables as they were.                                        *)
C5_DuplicateNameRefused ==
    [][\A body \in EnvironmentInputs.envBodies :
          /\ response'.op = "PostEnvironment"
          /\ Has(body, "name")
          /\ \E e \in environments :
                ToUpperCase(e.name) = ToUpperCase(body["name"])
          /\ PostEnvironment(body)
          => /\ response'.status = 400
             /\ response'.error = "Validation Error"
             /\ environments' = environments
             /\ variables' = variables]_vars

(* A duplicate has been refused while an environment and a variable exist. *)
C5_Witness ==
    /\ response.op = "PostEnvironment"
    /\ response.status = 400
    /\ response.message = "name must be unique"
    /\ environments # {}
    /\ variables # {}

(* C6: POST /environments/ without a name is answered 400, not 500, and    *)
(* creates no environment.                                                 *)
C6_MissingNameRefused ==
    [][\A body \in EnvironmentInputs.envBodies :
          /\ response'.op = "PostEnvironment"
          /\ ~Has(body, "name")
          /\ PostEnvironment(body)
          => /\ response'.status = 400
             /\ environments' = environments]_vars

(* C9: GET /environments/X.json, X not itself ending in '.json', answers   *)
(* with the flat configuration of the environment stored as X upper-cased  *)
(* when there is one, and with 404 when there is none, also when an        *)
(* environment named X.JSON is stored.                                     *)
OwnedBy(e) == {v \in variables : v.environment_id = e.id}

NameToValue(vs) ==
    [n \in {v.name : v \in vs} |-> (CHOOSE v \in vs : v.name = n).value]

C9_JsonSuffixStripped ==
    [][\A segment \in EnvironmentInputs.jsonSegments :
          LET X == SubSeq(segment, 1, Len(segment) - 5)
              named == {e \in environments : e.name = ToUpperCase(X)}
          IN  /\ response'.op = "GetEnvironmentJson"
              /\ ~EndsWith(ToLowerCase(X), DotJson)
              /\ GetEnvironmentJson(segment)
              => IF named = {}
                 THEN response'.status = 404
                 ELSE /\ response'.status = 200
                      /\ \E e \in named : response'.config = NameToValue(OwnedBy(e))]_vars

(* The dump of P has been served, with a variable in it, while P.JSON is   *)
(* stored too.                                                             *)
C9_Witness ==
    /\ response.op = "GetEnvironmentJson"
    /\ response.status = 200
    /\ response.config # NoConfig
    /\ \E e \in environments : e.name = Str_P_JSON

(* C11: a PUT or PATCH of an environment that is found, whatever its body  *)
(* carries (a name included), is answered 200, leaves the environment's id *)
(* and name as they were, changes no field but description, and that only  *)
(* to the description of the body, leaves every other row as it was, and   *)
(* the same segment resolves to the same environment afterwards.           *)
C11_OnlyDescriptionChanges ==
    [][\A segment \in EnvironmentInputs.segments,
          body \in EnvironmentInputs.updateBodies :
          /\ response'.op \in {"PutEnvironment", "PatchEnvironment"}
          /\ EnvironmentFound(segment)
          /\ \/ PutEnvironment(segment, body)
             \/ PatchEnvironment(segment, body)
          => LET old == ReqEnvironment(segment)
             IN  /\ response'.status = 200
                 /\ variables' = variables
                 /\ \E new \in environments' :
                       /\ new.id = old.id
                       /\ new.name = old.name
                       /\ \/ new.description = old.description
                          \/ /\ Has(body, "description")
                             /\ new.description = body["description"]
                       /\ environments' \ {new} = environments \ {old}
                       /\ {e \in environments' :
                              e.name = NormalizeEnvName(segment)} = {new}]_vars

(* A PUT has been answered with the environment P and its description set, *)
(* while the environment P.JSON is stored too.                             *)
C11_Witness ==
    /\ response.op = "PutEnvironment"
    /\ response.status = 200
    /\ response.environment.name = Str_P
    /\ response.environment.description = "d"
    /\ \E e \in environments : e.name = Str_P_JSON

(* C12: the list of environments, for N stored environments, page p and    *)
(* limit l (1 and 10 when absent or not a number), is answered 200 with    *)
(* total_items = N, total_pages = ceil(N / l), and a page of               *)
(* min(l, max(0, N - (p-1)*l)) stored environments in ascending order of   *)
(* name.  Stated for every p and l other than zero.                        *)
StatedPage(query) == IF ParseInt(query.page).nan THEN 1 ELSE ParseInt(query.page).value

StatedLimit(query) == IF ParseInt(query.limit).nan THEN 10 ELSE ParseInt(query.limit).value

ListedAsStated(query) ==
    LET p == StatedPage(query)
        l == StatedLimit(query)
        N == Cardinality(environments)
        rows == response'.environments
    IN  /\ response'.status = 200
        /\ response'.total_items = N
        /\ (response'.total_pages - 1) * l < N
        /\ N <= response'.total_pages * l
        /\ Len(rows) = Min(l, IF N - (p - 1) * l > 0 THEN N - (p - 1) * l ELSE 0)
        /\ \A i \in 1..Len(rows) : rows[i] \in environments
        /\ \A i, j \in 1..Len(rows) : i < j => NameLess(rows[i].name, rows[j].name)

C12_Pagination ==
    [][\A query \in ListInputs.queries :
          /\ response'.op = "GetEnvironments"
          /\ StatedPage(query) # 0 /\ StatedLimit(query) # 0
          /\ GetEnvironments(query)
          => ListedAsStated(query)]_vars

(* The same, for every p and l greater than zero.                          *)
PaginationOfPositivePages ==
    [][\A query \in ListInputs.queries :
          /\ response'.op = "GetEnvironments"
          /\ StatedPage(query) > 0 /\ StatedLimit(query) > 0
          /\ GetEnvironments(query)
          => ListedAsStated(query)]_vars

(* C13: every response of status 500 carries the generic error and message *)
(* and no text of the exception that caused it.                            *)
C13_GenericBodyOn500 ==
    response.status = 500 =>
        /\ response.error = "Internal Server Error"
        /\ response.message = "An unexpected error occurred on the server side."
        /\ response.details = ""

(* C16: on the routes other than the dump route, every stored environment  *)
(* is resolved by its own name, also one whose name ends in '.json', and a *)
(* DELETE addressed to a segment s removes no environment but the one      *)
(* whose stored name is s upper-cased.                                     *)
C16_ResolvesOwnNameOnly ==
    [][/\ \A e \in environments' :
             {f \in environments' : f.name = NormalizeEnvName(e.name)} = {e}
       /\ \A segment \in EnvironmentInputs.segments :
             /\ response'.op = "DeleteEnvironment"
             /\ DeleteEnvironment(segment)
             => \A e \in environments \ environments' :
                   e.name = ToUpperCase(segment)]_vars

(* The second half alone: a DELETE removes only the environment named.     *)
DeleteActsOnNamedOnly ==
    [][\A segment \in EnvironmentInputs.segments :
          /\ response'.op = "DeleteEnvironment"
          /\ DeleteEnvironment(segment)
          => \A e \in environments \ environments' :
                e.name = ToUpperCase(segment)]_vars


(***************************************************************************)
(*                         Properties of variables                         *)
(***************************************************************************)

(* C2: in every reachable state no two stored variables have the same pair *)
(* (environment_id, name).                                                 *)
C2_PairsUnique ==
    \A v1, v2 \in variables :
        v1 # v2 => ~(v1.environment_id = v2.environment_id /\ v1.name = v2.name)

(* C3: a DELETE of an environment that is found is answered 204 and leaves *)
(* no environment with its id or its name, no variable with its id, and    *)
(* every other variable in place; and after any request no                 *)
(* stored variable and no record in the response carries the id of an      *)
(* environment that was deleted, so no later lookup yields the deleted     *)
(* environment or one of its variables.                                    *)
DeletedEnvIds == (1..(nextEnvId - 1)) \ {e.id : e \in environments}

C3_CascadeDelete ==
    [][/\ \A segment \in VariableInputs.segments :
             /\ response'.op = "DeleteEnvironment"
             /\ EnvironmentFound(segment)
             /\ DeleteEnvironment(segment)
             => LET deleted == ReqEnvironment(segment)
                IN  /\ response'.status = 204
                    /\ \A e \in environments' : e.id # deleted.id
                    /\ \A e \in environments' : e.name # deleted.name
                    /\ \A v \in variables' : v.environment_id # deleted.id
                    /\ \A v \in variables' : v \in variables
                    /\ \A v \in variables :
                          v.environment_id # deleted.id => v \in variables'
       /\ \A v \in variables' : v.environment_id \notin DeletedEnvIds'
       /\ response'.environment.id \notin DeletedEnvIds'
       /\ response'.variable.environment_id \notin DeletedEnvIds']_vars

(* An environment has been deleted after two variables were created, and   *)
(* no variable is left while another environment is.                       *)
C3_Witness ==
    /\ response.op = "DeleteEnvironment"
    /\ response.status = 204
    /\ nextVarId = 3
    /\ variables = {}
    /\ environments # {}

(* C7: POST of a variable with a name and a value, to an environment that  *)
(* is found, is answered 201 exactly when that environment holds no        *)
(* variable of that name, whatever the other environments hold; otherwise  *)
(* it is answered 400 and the store is unchanged.                          *)
C7_CreateVariable ==
    [][\A segment \in VariableInputs.segments, body \in VariableInputs.postBodies :
          /\ response'.op = "PostVariable"
          /\ Has(body, "name") /\ Has(body, "value")
          /\ EnvironmentFound(segment)
          /\ PostVariable(segment, body)
          => LET E == ReqEnvironment(segment)
                 held == \E v \in variables :
                            v.environment_id = E.id /\ v.name = body["name"]
             IN  IF held
                 THEN /\ response'.status = 400
                      /\ store' = store
                 ELSE /\ response'.status = 201
                      /\ environments' = environments
                      /\ \E v \in variables' :
                            /\ variables' = variables \cup {v}
                            /\ v \notin variables
                            /\ v.environment_id = E.id
                            /\ v.name = body["name"]
                            /\ v.value = body["value"]]_vars

(* A variable has been created under a name another environment holds too. *)
C7_Witness ==
    /\ response.op = "PostVariable"
    /\ response.status = 201
    /\ \E v \in variables :
          /\ v.name = response.variable.name
          /\ v.environment_id # response.variable.environment_id

(* C8: the dump of an environment that is found maps exactly the names of  *)
(* the variables it owns, each to its stored value.                        *)
C8_FlatConfig ==
    [][\A segment \in VariableInputs.jsonSegments :
          /\ response'.op = "GetEnvironmentJson"
          /\ EnvironmentFound(JsonRouteParam(segment))
          /\ GetEnvironmentJson(segment)
          => LET owned == OwnedBy(ReqEnvironment(JsonRouteParam(segment)))
             IN  /\ response'.status = 200
                 /\ DOMAIN response'.config = {v.name : v \in owned}
                 /\ \A v \in owned : response'.config[v.name] = v.value]_vars

(* A dump with one key has been served while another environment owns a    *)
(* variable under another name.                                            *)
C8_Witness ==
    /\ response.op = "GetEnvironmentJson"
    /\ response.status = 200
    /\ Cardinality(DOMAIN response.config) = 1
    /\ \E v \in variables : v.name \notin DOMAIN response.config

(* C14: under every interleaving of the requests, the environment_id of    *)
(* every stored variable is the id of a stored environment.                *)
C14_NoOrphanVariable ==
    \A v \in variables : \E e \in environments : e.id = v.environment_id

(* The same, for the variables whose environment_id is not null: the       *)
(* foreign key refuses the row of a POST whose environment was deleted     *)
(* after findEnvironment.                                                  *)
NoDanglingReference ==
    \A v \in variables :
        v.environment_id # NullId => \E e \in environments : e.id = v.environment_id

(* The POST of a variable has been refused by the foreign key.             *)
RefusedByForeignKey ==
    /\ response.op = "PostVariable"
    /\ response.status = 500

(* C15: no request changes the environment_id of a stored variable: it is  *)
(* the id of the environment the variable was created under, whatever the  *)
(* bodies of the PUT and PATCH requests on it carry.                       *)
C15_OwnerNeverChanges ==
    [][\A v \in variables, w \in variables' :
          v.id = w.id => w.environment_id = v.environment_id]_vars

(* C10: a PUT or PATCH of a variable leaves every field among name, value, *)
(* description and is_sensitive that its body does not carry as it was.    *)
AbsentFieldsKept(body, old, new) ==
    /\ ~Has(body, "name") => new.name = old.name
    /\ ~Has(body, "value") => new.value = old.value
    /\ ~Has(body, "description") => new.description = old.description
    /\ ~Has(body, "is_sensitive") => new.is_sensitive = old.is_sensitive

C10_AbsentFieldsKept ==
    [][response'.op \in {"PutVariable", "PatchVariable"} =>
       \A segment \in FieldInputs.segments, var_name \in FieldInputs.varNames :
          EnvironmentFound(segment) /\ VariableFound(ReqEnvironment(segment), var_name)
          => LET old == ReqVariable(ReqEnvironment(segment), var_name)
             IN  \A body \in FieldInputs.putBodies :
                    \/ response'.op = "PutVariable" /\ PutVariable(segment, var_name, body)
                    \/ response'.op = "PatchVariable"
                       /\ PatchVariable(segment, var_name, body)
                    => \E new \in variables' :
                          new.id = old.id /\ AbsentFieldsKept(body, old, new)]_vars

(* An update has been answered with a variable none of whose fields has    *)
(* its value of creation: each was set by a request, the others kept.      *)
C10_Witness ==
    /\ response.op \in {"PutVariable", "PatchVariable"}
    /\ response.status = 200
    /\ response.variable.name = "B"
    /\ response.variable.value = "2"
    /\ response.variable.description = "d"
    /\ response.variable.is_sensitive = TRUE

====
